---- MODULE Spec2Model ----
(***************************************************************************)
(* A model of src/sync.hpp (namespace synctools):                          *)
(*   - Channel<T>: a bounded buffer guarded by one std::mutex and two       *)
(*     std::condition_variable objects (can_read, can_write);              *)
(*   - ParallelFunction: a call wrapper constructed over a vector of        *)
(*     mutexes and a function; its operator() is a template that no call   *)
(*     can instantiate.                                                    *)
(* Every thread is a small state machine whose position is a program       *)
(* counter; one action is one step a thread takes between two points at    *)
(* which another thread can observe or interfere.                          *)
(***************************************************************************)
EXTENDS Naturals, Integers, Sequences, FiniteSets, Bags, TLC

(***************************************************************************)
(* Bounds of the model.                                                    *)
(***************************************************************************)
\* Largest capacity a Channel is constructed with.
MaxCap == 2
\* Number of write calls each producer thread issues (M).
WritesEach == 2
\* Number of distinct mutexes ParallelFunction objects are built over.
NumMutexes == 2

\* Two producer threads (N = 2) and two consumer threads, which together
\* issue N*M read calls.
Producers == {<<"producer", i>> : i \in {1, 2}}
Consumers == {<<"consumer", i>> : i \in {1, 2}}
ChanThreads == Producers \cup Consumers
Invokers == {"t1", "t2"}
Mutexes == 1..NumMutexes
\* A std::shared_ptr<std::mutex> that points to no mutex.
Null == 0
\* ParallelFunction::SPtrMutex: the elements a collection can hold.
SPtrMutex == Mutexes \cup {Null}

\* The value "no thread": an unlocked std::mutex has no owner.
NoThread == <<"none", 0>>
\* A slot below the front of a std::queue: pop() on an empty queue moves the
\* front past the back, and size() wraps to 2^64 - 1 for one such slot.
Hole == 0 - 1
\* The value of a local T that has not been assigned yet.
NoValue == 0

\* The k-th value producer p writes: distinct for every (p, k).
ValueOf(p, k) == p[2] * (WritesEach + 1) + k
TotalWrites == Cardinality(Producers) * WritesEach

\* The values of T a read of memory outside the queue can yield.
AnyValue == {NoValue} \cup {ValueOf(p, k) : p \in Producers, k \in 1..WritesEach}

VARIABLES
    \* ---- Channel ----
    max_size,          \* Channel::max_size
    buffer,            \* Channel::buffer, front first
    read_write_lock,   \* owner of Channel::read_write_lock, or NoThread
    can_read,          \* threads blocked in can_read.wait
    can_write,         \* threads blocked in can_write.wait
    cpc,               \* position of every channel thread
    value,             \* write's parameter `value`, per thread
    popped,            \* read's local `popped`, per thread
    returned,          \* sequence of the values each thread's reads returned
    writes,            \* number of write calls each producer has issued
    reads,             \* number of read calls issued by all consumers
    script,            \* the values each producer's write calls pass, in order
    toRead,            \* the number of read calls the consumers issue
    pushLog,           \* history: values in the order buffer.push ran
    popLog,            \* history: values in the order buffer.pop ran
    \* ---- ParallelFunction ----
    mutexes,           \* ParallelFunction::mutexes of the object each thread uses
    function,          \* ParallelFunction::function of the same object
    owner,             \* owner of every std::mutex, or "none"
    ipc                \* position of every thread that uses a ParallelFunction

chanVars == <<max_size, buffer, read_write_lock, can_read, can_write, cpc,
              value, popped, returned, writes, reads, script, toRead,
              pushLog, popLog>>
invVars == <<mutexes, function, owner, ipc>>
vars == <<chanVars, invVars>>

\* The process has ended (a library assertion aborted it): no thread takes
\* another step.
halted == \E t \in ChanThreads : cpc[t] = "aborted"

(***************************************************************************)
(* Channel                                                                 *)
(***************************************************************************)

\* The front of the queue is past its back: the queue has no front element
\* and its size has wrapped (2^64 - Len(buf), which is neither 0 nor a
\* capacity of the model).
underflowed(buf) == Len(buf) > 0 /\ Head(buf) = Hole

\* front() and pop() on a queue without a front element are undefined
\* behaviour (the while loop of read keeps read from doing it).
undefined(buf) == Len(buf) = 0 \/ underflowed(buf)

\* Channel::is_empty
is_empty(buf) == Len(buf) = 0

\* A variant of is_full that only reports a buffer beyond its capacity.
is_full_beyond(buf, cap) == Len(buf) > cap

\* Channel::is_full
is_full(buf, cap) == ~underflowed(buf) /\ Len(buf) = cap

\* A variant of push that inserts at the front.
push_front(buf, v) == <<v>> \o buf

\* std::queue::push; on an underflowed queue the back moves up to the front
\* and the value lies below the front.
push(buf, v) == IF underflowed(buf) THEN Tail(buf) ELSE Append(buf, v)

\* std::queue::front: the values it can yield; without a front element the
\* behaviour is undefined and it yields whatever lies there.
front(buf) == IF undefined(buf) THEN AnyValue ELSE {Head(buf)}

\* A variant of pop that leaves the front element in place.
pop_keep(buf) == buf

\* std::queue::pop; without a front element the behaviour is undefined and
\* the front moves one more slot past the back.
pop(buf) == IF undefined(buf) THEN <<Hole>> \o buf ELSE Tail(buf)

\* A variant with `if` for `while`: after wait, write goes on to the push.
write_after_wait_if == "w_push"

\* Where write continues once wait has returned: the head of the while loop.
write_after_wait == "w_test"

\* A variant with `if` for `while`: after wait, read goes on to the pop.
read_after_wait_if == "r_pop"

\* Where read continues once wait has returned: the head of the while loop.
read_after_wait == "r_test"

\* A variant of notify_one that wakes every waiting thread (notify_all).
notify_every(waiting) == {waiting}

\* A variant of notify_one that wakes nobody.
notify_nobody(waiting) == {{}}

\* std::condition_variable::notify_one: the sets of threads it may wake,
\* one of the threads blocked in wait, or none when no thread is waiting.
notify_one(waiting) == IF waiting = {} THEN {{}} ELSE {{w} : w \in waiting}

\* The run of the producer/consumer workload: every producer writes M values.
Workload == [p \in Producers |-> [k \in 1..WritesEach |-> ValueOf(p, k)]]

\* Channel::Channel(size): an empty buffer, nobody inside; the threads are
\* about to issue the write calls of `scr` and `nreads` read calls.
Constructed(size, scr, nreads) ==
    /\ max_size = size
    /\ script = scr
    /\ toRead = nreads
    /\ buffer = <<>>
    /\ read_write_lock = NoThread
    /\ can_read = {}
    /\ can_write = {}
    /\ cpc = [t \in ChanThreads |-> "idle"]
    /\ value = [t \in Producers |-> NoValue]
    /\ popped = [t \in Consumers |-> NoValue]
    /\ returned = [t \in Consumers |-> <<>>]
    /\ writes = [t \in Producers |-> 0]
    /\ reads = 0
    /\ pushLog = <<>>
    /\ popLog = <<>>

\* A Channel of capacity >= 1 under the producer/consumer workload.
InitChannel == \E size \in 1..MaxCap : Constructed(size, Workload, TotalWrites)

\* A producer calls write(value).
WriteCall(t) ==
    /\ cpc[t] = "idle"
    /\ UNCHANGED <<invVars, script, toRead>>
    /\ ~halted
    /\ writes[t] < Len(script[t])
    /\ writes' = [writes EXCEPT ![t] = @ + 1]
    /\ value' = [value EXCEPT ![t] = script[t][writes[t] + 1]]
    /\ cpc' = [cpc EXCEPT ![t] = "w_lock"]
    /\ UNCHANGED <<max_size, buffer, read_write_lock, can_read, can_write,
                   popped, returned, reads, pushLog, popLog>>

\* A variant of WriteLock that takes the mutex without waiting for it.
WriteLock_barging(t) ==
    /\ cpc[t] = "w_lock"
    /\ UNCHANGED <<invVars, script, toRead>>
    /\ ~halted
    /\ read_write_lock' = t
    /\ cpc' = [cpc EXCEPT ![t] = "w_test"]
    /\ UNCHANGED <<max_size, buffer, can_read, can_write, value, popped,
                   returned, writes, reads, pushLog, popLog>>

\* auto lock = std::unique_lock(read_write_lock): blocks while it is owned.
WriteLock(t) ==
    /\ cpc[t] = "w_lock"
    /\ UNCHANGED <<invVars, script, toRead>>
    /\ ~halted
    /\ read_write_lock = NoThread
    /\ read_write_lock' = t
    /\ cpc' = [cpc EXCEPT ![t] = "w_test"]
    /\ UNCHANGED <<max_size, buffer, can_read, can_write, value, popped,
                   returned, writes, reads, pushLog, popLog>>

\* while (is_full()) can_write.wait(lock): wait releases the mutex and blocks.
WriteTest(t) ==
    /\ cpc[t] = "w_test"
    /\ UNCHANGED <<invVars, script, toRead>>
    /\ ~halted
    /\ IF is_full(buffer, max_size)
       THEN /\ can_write' = can_write \cup {t}
            /\ read_write_lock' = NoThread
            /\ cpc' = [cpc EXCEPT ![t] = "w_wait"]
       ELSE /\ cpc' = [cpc EXCEPT ![t] = "w_push"]
            /\ UNCHANGED <<can_write, read_write_lock>>
    /\ UNCHANGED <<max_size, buffer, can_read, value, popped, returned,
                   writes, reads, pushLog, popLog>>

\* A spurious wakeup of a thread blocked in can_write.wait.
WriteSpurious(t) ==
    /\ cpc[t] = "w_wait"
    /\ UNCHANGED <<invVars, script, toRead>>
    /\ ~halted
    /\ t \in can_write
    /\ can_write' = can_write \ {t}
    /\ cpc' = [cpc EXCEPT ![t] = "w_relock"]
    /\ UNCHANGED <<max_size, buffer, read_write_lock, can_read, value, popped,
                   returned, writes, reads, pushLog, popLog>>

\* wait reacquires the mutex before it returns into the while loop.
WriteRelock(t) ==
    /\ cpc[t] = "w_relock"
    /\ UNCHANGED <<invVars, script, toRead>>
    /\ ~halted
    /\ read_write_lock = NoThread
    /\ read_write_lock' = t
    /\ cpc' = [cpc EXCEPT ![t] = write_after_wait]
    /\ UNCHANGED <<max_size, buffer, can_read, can_write, value, popped,
                   returned, writes, reads, pushLog, popLog>>

\* buffer.push(value)
WritePush(t) ==
    /\ cpc[t] = "w_push"
    /\ UNCHANGED <<invVars, script, toRead>>
    /\ ~halted
    /\ buffer' = push(buffer, value[t])
    /\ pushLog' = Append(pushLog, value[t])
    /\ cpc' = [cpc EXCEPT ![t] = "w_notify"]
    /\ UNCHANGED <<max_size, read_write_lock, can_read, can_write, value,
                   popped, returned, writes, reads, popLog>>

\* can_read.notify_one(): wakes one thread blocked in can_read.wait, if any.
WriteNotify(t) ==
    /\ cpc[t] = "w_notify"
    /\ UNCHANGED <<invVars, script, toRead>>
    /\ ~halted
    /\ \E woken \in notify_one(can_read) :
          /\ cpc' = [x \in ChanThreads |->
                       IF x = t THEN "w_unlock"
                       ELSE IF x \in woken THEN "r_relock" ELSE cpc[x]]
          /\ can_read' = can_read \ woken
    /\ UNCHANGED <<max_size, buffer, read_write_lock, can_write, value,
                   popped, returned, writes, reads, pushLog, popLog>>

\* write returns: the unique_lock's destructor unlocks the mutex.
WriteReturn(t) ==
    /\ cpc[t] = "w_unlock"
    /\ UNCHANGED <<invVars, script, toRead>>
    /\ ~halted
    /\ read_write_lock' = NoThread
    /\ cpc' = [cpc EXCEPT ![t] = "idle"]
    /\ UNCHANGED <<max_size, buffer, can_read, can_write, value, popped,
                   returned, writes, reads, pushLog, popLog>>

\* A consumer calls read(); the consumers issue toRead reads in total.
ReadCall(t) ==
    /\ cpc[t] = "idle"
    /\ UNCHANGED <<invVars, script, toRead>>
    /\ ~halted
    /\ reads < toRead
    /\ reads' = reads + 1
    /\ cpc' = [cpc EXCEPT ![t] = "r_lock"]
    /\ UNCHANGED <<max_size, buffer, read_write_lock, can_read, can_write,
                   value, popped, returned, writes, pushLog, popLog>>

\* auto lock = std::unique_lock(read_write_lock): blocks while it is owned.
ReadLock(t) ==
    /\ cpc[t] = "r_lock"
    /\ UNCHANGED <<invVars, script, toRead>>
    /\ ~halted
    /\ read_write_lock = NoThread
    /\ read_write_lock' = t
    /\ cpc' = [cpc EXCEPT ![t] = "r_test"]
    /\ UNCHANGED <<max_size, buffer, can_read, can_write, value, popped,
                   returned, writes, reads, pushLog, popLog>>

\* while (is_empty()) can_read.wait(lock): wait releases the mutex and blocks.
ReadTest(t) ==
    /\ cpc[t] = "r_test"
    /\ UNCHANGED <<invVars, script, toRead>>
    /\ ~halted
    /\ IF is_empty(buffer)
       THEN /\ can_read' = can_read \cup {t}
            /\ read_write_lock' = NoThread
            /\ cpc' = [cpc EXCEPT ![t] = "r_wait"]
       ELSE /\ cpc' = [cpc EXCEPT ![t] = "r_pop"]
            /\ UNCHANGED <<can_read, read_write_lock>>
    /\ UNCHANGED <<max_size, buffer, can_write, value, popped, returned,
                   writes, reads, pushLog, popLog>>

\* A spurious wakeup of a thread blocked in can_read.wait.
ReadSpurious(t) ==
    /\ cpc[t] = "r_wait"
    /\ UNCHANGED <<invVars, script, toRead>>
    /\ ~halted
    /\ t \in can_read
    /\ can_read' = can_read \ {t}
    /\ cpc' = [cpc EXCEPT ![t] = "r_relock"]
    /\ UNCHANGED <<max_size, buffer, read_write_lock, can_write, value, popped,
                   returned, writes, reads, pushLog, popLog>>

\* wait reacquires the mutex before it returns into the while loop.
ReadRelock(t) ==
    /\ cpc[t] = "r_relock"
    /\ UNCHANGED <<invVars, script, toRead>>
    /\ ~halted
    /\ read_write_lock = NoThread
    /\ read_write_lock' = t
    /\ cpc' = [cpc EXCEPT ![t] = read_after_wait]
    /\ UNCHANGED <<max_size, buffer, can_read, can_write, value, popped,
                   returned, writes, reads, pushLog, popLog>>

\* T popped = buffer.front(); buffer.pop(); where that is undefined, the
\* process may instead abort (library assertion '!this->empty()').
ReadPop(t) ==
    /\ cpc[t] = "r_pop"
    /\ UNCHANGED <<invVars, script, toRead>>
    /\ ~halted
    /\ \/ /\ \E v \in front(buffer) :
                 /\ popped' = [popped EXCEPT ![t] = v]
                 /\ popLog' = Append(popLog, v)
            /\ buffer' = pop(buffer)
            /\ cpc' = [cpc EXCEPT ![t] = "r_notify"]
       \/ /\ undefined(buffer)
          /\ cpc' = [x \in ChanThreads |-> "aborted"]
          /\ UNCHANGED <<popped, popLog, buffer>>
    /\ UNCHANGED <<max_size, read_write_lock, can_read, can_write, value,
                   returned, writes, reads, pushLog>>

\* can_write.notify_one(): wakes one thread blocked in can_write.wait, if any.
ReadNotify(t) ==
    /\ cpc[t] = "r_notify"
    /\ UNCHANGED <<invVars, script, toRead>>
    /\ ~halted
    /\ \E woken \in notify_one(can_write) :
          /\ cpc' = [x \in ChanThreads |->
                       IF x = t THEN "r_unlock"
                       ELSE IF x \in woken THEN "w_relock" ELSE cpc[x]]
          /\ can_write' = can_write \ woken
    /\ UNCHANGED <<max_size, buffer, read_write_lock, can_read, value,
                   popped, returned, writes, reads, pushLog, popLog>>

\* return popped: the unique_lock's destructor unlocks the mutex.
ReadReturn(t) ==
    /\ cpc[t] = "r_unlock"
    /\ UNCHANGED <<invVars, script, toRead>>
    /\ ~halted
    /\ returned' = [returned EXCEPT ![t] = Append(@, popped[t])]
    /\ read_write_lock' = NoThread
    /\ cpc' = [cpc EXCEPT ![t] = "idle"]
    /\ UNCHANGED <<max_size, buffer, can_read, can_write, value, popped,
                   writes, reads, pushLog, popLog>>

\* One step of Channel::write by some producer.
Write ==
    \E t \in Producers :
        \/ WriteCall(t)
        \/ WriteLock(t)
        \/ WriteTest(t)
        \/ WriteSpurious(t)
        \/ WriteRelock(t)
        \/ WritePush(t)
        \/ WriteNotify(t)
        \/ WriteReturn(t)

\* One step of Channel::read by some consumer.
Read ==
    \E t \in Consumers :
        \/ ReadCall(t)
        \/ ReadLock(t)
        \/ ReadTest(t)
        \/ ReadSpurious(t)
        \/ ReadRelock(t)
        \/ ReadPop(t)
        \/ ReadNotify(t)
        \/ ReadReturn(t)

NextChannel == Write \/ Read

\* The steps thread t takes when it is scheduled: every step of write but a
\* spurious wakeup, which no scheduling promises.
WriteProgress(t) ==
    \/ WriteCall(t)
    \/ WriteLock(t)
    \/ WriteTest(t)
    \/ WriteRelock(t)
    \/ WritePush(t)
    \/ WriteNotify(t)
    \/ WriteReturn(t)

\* The steps thread t takes when it is scheduled: every step of read but a
\* spurious wakeup.
ReadProgress(t) ==
    \/ ReadCall(t)
    \/ ReadLock(t)
    \/ ReadTest(t)
    \/ ReadRelock(t)
    \/ ReadPop(t)
    \/ ReadNotify(t)
    \/ ReadReturn(t)

\* Fair scheduling: a thread that could take its next step at every moment
\* from some point on eventually takes it.  Nothing more is promised:
\* std::mutex does not hand the mutex to the thread that has waited longest,
\* so a thread in lock() can lose the mutex to another thread again and
\* again.
FairThreads ==
    /\ \A t \in Producers : WF_vars(WriteProgress(t))
    /\ \A t \in Consumers : WF_vars(ReadProgress(t))

\* Some thread leaves a wait without having been notified.
SpuriousWakeup ==
    \/ \E t \in Producers : WriteSpurious(t)
    \/ \E t \in Consumers : ReadSpurious(t)

(***************************************************************************)
(* ParallelFunction                                                        *)
(*                                                                         *)
(* The constructor stores the mutex collection and the function it is      *)
(* given.  operator() is a member template: it is written to hand the      *)
(* lambda                                                                  *)
(*     [](auto&&... locks) { std::scoped_lock lock(locks...); }            *)
(* to unpack_call and then to call the wrapped function.                   *)
(*                                                                         *)
(* No instantiation of operator() compiles: unpack_call asks for           *)
(* container.size() of a function parameter as a constant expression, the  *)
(* lambda hands the shared_ptr objects themselves to std::scoped_lock, and *)
(* operator() writes std::forward(args) without its template argument.    *)
(* A program that holds a call of operator() does not build, so in every   *)
(* process there is no call: no thread enters unpack_call, no mutex is     *)
(* locked through a ParallelFunction and the wrapped function is never     *)
(* called.  What a process does with a ParallelFunction is construct it.   *)
(***************************************************************************)

\* The mutex collections a ParallelFunction is constructed with: the
\* constructor stores any sequence of shared_ptr, the empty one, those that
\* repeat a mutex and those with a null element included.
Collections == UNION {[1..n -> SPtrMutex] : n \in 0..NumMutexes}

\* The functions a ParallelFunction is constructed with.
Functions == {"f", "g"}

\* The mutexes thread t owns.
held(own, t) == {m \in Mutexes : own[m] = t}

\* The mutexes of the collection t's invoker was constructed with.
mutexSet(t) == {mutexes[t][i] : i \in 1..Len(mutexes[t])}

\* unpack_call: std::make_index_sequence<container.size()>, where container
\* is a function parameter, is never a constant expression.
size_is_constant(container) == container # "parameter"

\* What std::scoped_lock can be built over: objects with lock(), try_lock()
\* and unlock(); a std::shared_ptr has none of them.
lockable(object) == object = "mutex"

\* std::forward(args) without its template argument deduces nothing: the
\* expression is well-formed only for an empty pack.
forward_deduces(nargs) == nargs = 0

\* The sizes of the pack Args of the instantiations considered.
PackSizes == {0, 1}

\* ParallelFunction::operator() can be instantiated for a pack of nargs
\* arguments.
instantiates(nargs) ==
    /\ size_is_constant("parameter")
    /\ lockable("shared_ptr")
    /\ forward_deduces(nargs)

\* Every thread has constructed a ParallelFunction(mtxs, inner): mutexes =
\* mtxs, function = inner; every mutex is unlocked.
InitInvoker ==
    /\ mutexes \in [Invokers -> Collections]
    /\ function \in [Invokers -> Functions]
    /\ owner = [m \in Mutexes |-> "none"]
    /\ ipc = [t \in Invokers |-> "idle"]

\* ParallelFunction(mtxs, inner): thread t constructs another object, over
\* another collection or function, and uses it from now on.
ParallelFunction(t) ==
    /\ ipc[t] = "idle"
    /\ ~halted
    /\ \E mtxs \in Collections, inner \in Functions :
          /\ <<mtxs, inner>> # <<mutexes[t], function[t]>>
          /\ mutexes' = [mutexes EXCEPT ![t] = mtxs]
          /\ function' = [function EXCEPT ![t] = inner]
    /\ UNCHANGED <<chanVars, owner, ipc>>

\* A thread calls operator()(args...): were there an instantiation, the
\* thread would enter unpack_call with the lambda.
Invoke(t) ==
    /\ \E nargs \in PackSizes : instantiates(nargs)
    /\ ipc[t] = "idle"
    /\ ~halted
    /\ ipc' = [ipc EXCEPT ![t] = "unpack_call"]
    /\ UNCHANGED <<chanVars, mutexes, function, owner>>

\* The steps of the threads that use ParallelFunction objects.  Invoke is
\* not among them: it is enabled in no state.
NextInvoker == \E t \in Invokers : ParallelFunction(t)

(***************************************************************************)
(* Specifications                                                          *)
(***************************************************************************)

\* No ParallelFunction is in use: every collection is empty.
NoInvoker ==
    /\ InitInvoker
    /\ mutexes = [t \in Invokers |-> <<>>]
    /\ function = [t \in Invokers |-> "f"]

\* No thread uses the channel.
NoChannel == Constructed(1, [p \in Producers |-> <<>>], 0)

Init == InitChannel /\ InitInvoker
Next == NextChannel \/ NextInvoker
Spec == Init /\ [][Next]_vars

\* Producers and consumers on one Channel.
InitChannelOnly == InitChannel /\ NoInvoker
SpecChannel == InitChannelOnly /\ [][NextChannel]_vars

\* The same, every thread scheduled fairly.
FairChannel == SpecChannel /\ FairThreads

\* A Channel constructed with any capacity, 0 included (the constructor
\* stores `size` as it is), under the same workload.
InitAnyCapacityOnly ==
    /\ \E size \in 0..MaxCap : Constructed(size, Workload, TotalWrites)
    /\ NoInvoker
SpecAnyCapacity == InitAnyCapacityOnly /\ [][NextChannel]_vars

\* The scenario of a Channel of capacity 2: thread A writes 1, 2 and 3, the
\* other producer writes nothing, and one read is issued (by either consumer
\* thread, which is the scenario's thread B).
ThreadA == <<"producer", 1>>
ScenarioScript == [p \in Producers |-> IF p = ThreadA THEN <<1, 2, 3>> ELSE <<>>]
InitScenarioOnly == Constructed(2, ScenarioScript, 1) /\ NoInvoker
FairScenario == InitScenarioOnly /\ [][NextChannel]_vars /\ FairThreads

\* Threads that construct ParallelFunction objects over shared mutexes.
InitInvokerOnly == NoChannel /\ InitInvoker
SpecInvoker == InitInvokerOnly /\ [][NextInvoker]_vars

(***************************************************************************)
(* Properties of Channel                                                   *)
(***************************************************************************)

Range(s) == {s[i] : i \in 1..Len(s)}

\* The multiset of the elements of a sequence.
BagOfSeq(s) == [v \in Range(s) |-> Cardinality({i \in 1..Len(s) : s[i] = v})]

\* The multiset of the values the producers write in a whole run.
WrittenBag == SetToBag({ValueOf(p, k) : p \in Producers, k \in 1..WritesEach})

\* The multiset of the values the consumers' reads have returned.
ReturnedBag ==
    LET c1 == <<"consumer", 1>>
        c2 == <<"consumer", 2>>
    IN BagOfSeq(returned[c1]) (+) BagOfSeq(returned[c2])

\* Every read call of the run has returned.
AllReadsDone ==
    /\ reads = TotalWrites
    /\ \A t \in Consumers : cpc[t] = "idle"

\* The positions of write before its push.
BeforePush == {"w_lock", "w_test", "w_wait", "w_relock"}

\* The positions of read before its pop.
BeforePop == {"r_lock", "r_test", "r_wait", "r_relock"}

\* C1: in every reachable state the number of buffered elements n satisfies
\* 0 <= n <= capacity.
C1_BufferWithinCapacity ==
    /\ 0 <= Len(buffer)
    /\ Len(buffer) <= max_size

\* C1 witness: the buffer is full and a producer that found it full is blocked.
C1_Witness ==
    /\ Len(buffer) = max_size
    /\ \E t \in Producers : cpc[t] = "w_wait"

\* C2: the values popped by reads, in the order of the pops, are a prefix of
\* the values pushed by writes, in the order of the pushes; what has been
\* pushed and not popped is the buffer, in order.
C2_GlobalFifo ==
    /\ Len(popLog) <= Len(pushLog)
    /\ popLog = SubSeq(pushLog, 1, Len(popLog))
    /\ pushLog = popLog \o buffer

\* C2 witness: both producers' values went through a buffer that held two of
\* them at once, and every one has been read back in the order written.
C2_Witness ==
    /\ max_size = 2
    /\ Len(popLog) = TotalWrites
    /\ popLog = pushLog
    /\ pushLog[1] = ValueOf(<<"producer", 2>>, 1)
    /\ pushLog[2] = ValueOf(<<"producer", 1>>, 1)
    /\ buffer = <<>>

\* C5: while the buffer is full a write that has not pushed yet stays before
\* its push, and the only change to the buffer is a read's pop; a push happens
\* only with n < capacity and appends the written value at the back.
C5_WriteWaitsForSpace ==
    [][\A t \in Producers :
         /\ (Len(buffer) = max_size /\ cpc[t] \in BeforePush)
               => /\ cpc'[t] \in BeforePush
                  /\ buffer' # buffer =>
                        /\ buffer' = Tail(buffer)
                        /\ \E r \in Consumers : cpc[r] = "r_pop" /\ cpc'[r] = "r_notify"
         /\ (cpc[t] = "w_push" /\ cpc'[t] # "w_push")
               => /\ Len(buffer) < max_size
                  /\ buffer' = Append(buffer, value[t])]_vars

\* C5 witness: a producer is blocked in can_write.wait on a full buffer while
\* a read has reached its pop.
C5_Witness ==
    /\ Len(buffer) = max_size
    /\ \E t \in Producers : cpc[t] = "w_wait" /\ t \in can_write
    /\ \E r \in Consumers : cpc[r] = "r_pop"

\* C6: while the buffer is empty a read that has not popped yet stays before
\* its pop, and the only change to the buffer is a write's push; a pop happens
\* only with n > 0, removes the front element, and read returns that element.
C6_ReadWaitsForElement ==
    [][\A t \in Consumers :
         /\ (Len(buffer) = 0 /\ cpc[t] \in BeforePop)
               => /\ cpc'[t] \in BeforePop
                  /\ buffer' # buffer =>
                        \E w \in Producers :
                           /\ cpc[w] = "w_push" /\ cpc'[w] = "w_notify"
                           /\ buffer' = <<value[w]>>
         /\ (cpc[t] = "r_pop" /\ cpc'[t] # "r_pop")
               => /\ Len(buffer) > 0
                  /\ popped'[t] = Head(buffer)
                  /\ buffer' = Tail(buffer)
         /\ (cpc[t] = "r_unlock" /\ cpc'[t] = "idle")
               => returned'[t] = Append(returned[t], popped[t])]_vars

\* C6 witness: a read that was issued on an empty channel has returned the
\* first value written, while the other consumer is blocked in can_read.wait
\* on the buffer that is empty again.
C6_Witness ==
    /\ buffer = <<>>
    /\ Len(pushLog) = 1
    /\ \E t \in Consumers :
          /\ returned[t] = <<pushLog[1]>>
          /\ \E r \in Consumers \ {t} : cpc[r] = "r_wait" /\ r \in can_read

\* C7: once all N*M reads have completed, the multiset of the values the
\* reads returned equals the multiset of the values written, and the buffer
\* is empty.
C7_NoLossNoDuplication ==
    AllReadsDone =>
        /\ ReturnedBag = WrittenBag
        /\ buffer = <<>>

\* C7 witness: all reads are done and each consumer returned some of them.
C7_Witness ==
    /\ AllReadsDone
    /\ \A t \in Consumers : Len(returned[t]) >= 1
    /\ \A t \in Producers : cpc[t] = "idle"

\* The positions at which a thread owns read_write_lock.
UnderLock == {"w_test", "w_push", "w_notify", "w_unlock",
              "r_test", "r_pop", "r_notify", "r_unlock"}

\* Thread t has nothing left to do: it is outside a call and issues no more.
Finished(t) ==
    /\ cpc[t] = "idle"
    /\ t \in Producers => writes[t] = Len(script[t])
    /\ t \in Consumers => reads = toRead

\* Every call of the run has returned.
AllCallsDone == \A t \in ChanThreads : Finished(t)

\* C11: on a Channel constructed with capacity 0 no write and no read ever
\* gets past its wait: nothing is pushed or popped, no call returns, and the
\* buffer stays empty.
C11_ZeroCapacityBlocksForever ==
    max_size = 0 =>
        /\ buffer = <<>>
        /\ pushLog = <<>>
        /\ popLog = <<>>
        /\ \A t \in Producers :
              cpc[t] \in BeforePush \cup {"idle"}
        /\ \A t \in Consumers :
              /\ cpc[t] \in BeforePop \cup {"idle"}
              /\ returned[t] = <<>>
        /\ \A t \in Producers : writes[t] = IF cpc[t] = "idle" THEN 0 ELSE 1
        /\ reads = Cardinality({t \in Consumers : cpc[t] # "idle"})

\* C11 witness: capacity 0 was accepted, and every thread's first call is
\* blocked in wait.
C11_Witness ==
    /\ max_size = 0
    /\ can_write = Producers
    /\ can_read = Consumers
    /\ \A t \in Producers : cpc[t] = "w_wait" /\ writes[t] = 1

\* C12: the notify_one of a write takes exactly one thread out of can_read.wait
\* when one is waiting, leaves the other waiting readers and every writer
\* where they are, and changes nothing when no reader waits; the same for
\* the notify_one of a read and the waiting writers.
C12_NotifyWakesExactlyOne ==
    [][/\ \A t \in Producers :
             (cpc[t] = "w_notify" /\ cpc'[t] # "w_notify") =>
                 /\ can_write' = can_write
                 /\ \A w \in Producers \ {t} : cpc'[w] = cpc[w]
                 /\ IF can_read = {}
                    THEN /\ can_read' = {}
                         /\ \A r \in Consumers : cpc'[r] = cpc[r]
                    ELSE \E r \in can_read :
                            /\ can_read' = can_read \ {r}
                            /\ cpc'[r] = "r_relock"
                            /\ \A x \in Consumers \ {r} : cpc'[x] = cpc[x]
       /\ \A t \in Consumers :
             (cpc[t] = "r_notify" /\ cpc'[t] # "r_notify") =>
                 /\ can_read' = can_read
                 /\ \A r \in Consumers \ {t} : cpc'[r] = cpc[r]
                 /\ IF can_write = {}
                    THEN /\ can_write' = {}
                         /\ \A w \in Producers : cpc'[w] = cpc[w]
                    ELSE \E w \in can_write :
                            /\ can_write' = can_write \ {w}
                            /\ cpc'[w] = "w_relock"
                            /\ \A x \in Producers \ {w} : cpc'[x] = cpc[x]]_vars

\* C12 witness: a write has notified while both consumers were waiting: one
\* of them is woken, the other still waits.
C12_Witness ==
    \E t \in Producers, r, x \in Consumers :
        /\ cpc[t] = "w_unlock"
        /\ Len(pushLog) = 1
        /\ r # x
        /\ cpc[r] = "r_relock"
        /\ cpc[x] = "r_wait" /\ can_read = {x}

C17_RecheckAfterWake ==
    [][/\ \A t \in Producers :
             /\ (cpc[t] = "w_relock" /\ cpc'[t] # "w_relock") =>
                    /\ cpc'[t] = "w_test"
                    /\ read_write_lock' = t
                    /\ buffer' = buffer
             /\ (cpc[t] = "w_test" /\ cpc'[t] # "w_test") =>
                    /\ buffer' = buffer
                    /\ IF Len(buffer) = max_size
                       THEN cpc'[t] = "w_wait" /\ t \in can_write'
                       ELSE cpc'[t] = "w_push"
             /\ (cpc[t] = "w_push" /\ cpc'[t] # "w_push") => Len(buffer) < max_size
       /\ \A t \in Consumers :
             /\ (cpc[t] = "r_relock" /\ cpc'[t] # "r_relock") =>
                    /\ cpc'[t] = "r_test"
                    /\ read_write_lock' = t
                    /\ buffer' = buffer
             /\ (cpc[t] = "r_test" /\ cpc'[t] # "r_test") =>
                    /\ buffer' = buffer
                    /\ IF Len(buffer) = 0
                       THEN cpc'[t] = "r_wait" /\ t \in can_read'
                       ELSE cpc'[t] = "r_pop"
             /\ (cpc[t] = "r_pop" /\ cpc'[t] # "r_pop") => Len(buffer) > 0]_vars

\* C17 witness: a consumer has been woken out of can_read.wait and is about
\* to take the lock again, but the other consumer has already returned the
\* only element written: the buffer is empty.
C17_Witness ==
    \E r, x \in Consumers :
        /\ r # x
        /\ cpc[r] = "r_relock"
        /\ read_write_lock = NoThread
        /\ reads = 2
        /\ Len(pushLog) = 1
        /\ returned[x] = pushLog
        /\ buffer = <<>>

\* C18: exactly the thread that owns read_write_lock is at a test, a push, a
\* pop, a notify or the return; so at most one thread is, and a thread
\* waiting on can_read or can_write does not own the lock.
C18_SerializedUnderLock ==
    /\ \A t \in ChanThreads : (cpc[t] \in UnderLock) <=> (read_write_lock = t)
    /\ Cardinality({t \in ChanThreads : cpc[t] \in UnderLock}) <= 1
    /\ \A t \in can_read \cup can_write :
          /\ read_write_lock # t
          /\ cpc[t] \in {"r_wait", "w_wait"}

\* C18 witness: a consumer is popping under the lock while one producer waits
\* on can_write and the other waits for the lock.
C18_Witness ==
    \E r \in Consumers, w, v \in Producers :
        /\ cpc[r] = "r_pop" /\ read_write_lock = r
        /\ cpc[w] = "w_wait" /\ w \in can_write
        /\ cpc[v] = "w_lock"

\* C19: there is no state in which every thread is blocked on a condition
\* variable or has finished, while a blocked reader could proceed (buffer not
\* empty) or a blocked writer could (buffer not full).
C19_NoLostWakeup ==
    ~ /\ \A t \in ChanThreads : cpc[t] \in {"r_wait", "w_wait"} \/ Finished(t)
      /\ \/ can_read # {} /\ ~is_empty(buffer)
         \/ can_write # {} /\ ~is_full(buffer, max_size)

\* C19 witness: both consumers are blocked on can_read, the buffer has an
\* element, and the one thread still running is the writer about to notify.
C19_Witness ==
    \E t \in Producers :
        /\ cpc[t] = "w_notify"
        /\ can_read = Consumers
        /\ buffer # <<>>
        /\ \A w \in Producers \ {t} : cpc[w] \in {"idle", "w_wait"}

\* C20 (amended): with as many write calls as read calls, under fair
\* scheduling every run on which spurious wakeups come to an end reaches the
\* state in which every write call and every read call has returned.
C20_TerminatesUnlessSpurious ==
    (<>AllCallsDone) \/ ([]<><<SpuriousWakeup>>_vars)

\* C20 as stated: under fair scheduling the run reaches the state in which
\* every write call and every read call has returned.
C20_BalancedWorkloadTerminates == <>AllCallsDone

\* C20 witness: the whole workload has completed on a Channel of capacity 1,
\* the two producers' writes interleaved.
C20_Witness ==
    /\ AllCallsDone
    /\ max_size = 1
    /\ Len(popLog) = TotalWrites
    /\ pushLog[1] = ValueOf(<<"producer", 1>>, 1)
    /\ pushLog[2] = ValueOf(<<"producer", 2>>, 1)

(***************************************************************************)
(* Properties of ParallelFunction                                          *)
(***************************************************************************)

\* Thread t is free to make a call.
Callable(t) ==
    /\ ipc[t] = "idle"
    /\ ~halted

\* Thread t is at line 152 of operator(), in the call of the wrapped
\* function.
InBody(t) == ipc[t] = "function"

\* The collections of t and u have a mutex in common.
Share(t, u) == mutexSet(t) \cap mutexSet(u) \cap Mutexes # {}

C14_EmptyCollectionNeverBlocks ==
    \A t \in Invokers :
        mutexes[t] = <<>> =>
            /\ ipc[t] \in {"idle", "unpack_call", "function"}
            /\ held(owner, t) = {}
            /\ Callable(t) => ENABLED Invoke(t)

\* C15: a thread that is free to call can invoke its ParallelFunction, the
\* call that runs the wrapped function once on the forwarded arguments and
\* yields what the function yields.
C15_CallsOnceAndYieldsTheSame ==
    \A t \in Invokers :
        \A c \in Collections :
            (mutexes[t] = c /\ Callable(t)) => ENABLED Invoke(t)

====
